---- MODULE Spec2Model ----
(***************************************************************************)
(* Model of the delta-neutral strategy simulation (Strategy, AMMPosition,  *)
(* LendingPosition, PriceProvider) and of the bignumber.js decimal         *)
(* arithmetic it is written in.                                            *)
(*                                                                         *)
(* A natural number is a sequence of limbs, least significant first, each  *)
(* limb holding three decimal digits; it has no zero limb at its high end  *)
(* and zero is the empty sequence.  A decimal is a record                  *)
(*   [k, neg, m, e]   value = (-1)^neg * m / LimbBase^e                    *)
(* with k = "fin" for a finite value, "nan" for NaN and "inf" for an       *)
(* infinity.  A finite decimal is kept canonical (no zero limb at the low  *)
(* end while e > 0, zero is positive with e = 0) so that equal values are  *)
(* equal records, as bignumber.js keeps its coefficient normalised.        *)
(***************************************************************************)
EXTENDS Integers, Sequences, FiniteSets, TLC

LimbBase == 1000

DigitsPerLimb == 3

\* BN.config({ DECIMAL_PLACES: 9, ROUNDING_MODE: BN.ROUND_DOWN })
DECIMAL_PLACES == 9

DivLimbs == DECIMAL_PLACES \div DigitsPerLimb

(***************************************************************************)
(* Natural numbers of any size.  The operators are written with function   *)
(* constructors rather than by recursion over the limbs wherever the       *)
(* result allows it; long division and Newton's iteration recurse once per *)
(* quotient limb and once per iteration.                                   *)
(***************************************************************************)
NLimb(a, i) == IF i >= 1 /\ i <= Len(a) THEN a[i] ELSE 0

\* a without the zero limbs at its high end
NNorm(a) ==
    IF Len(a) = 0 THEN <<>>
    ELSE IF a[Len(a)] # 0 THEN SubSeq(a, 1, Len(a))
    ELSE LET h == CHOOSE h \in 0..(Len(a) - 1) :
                      /\ h = 0 \/ a[h] # 0
                      /\ \A j \in (h + 1)..Len(a) : a[j] = 0
         IN  SubSeq(a, 1, h)

RECURSIVE NFromInt(_)
NFromInt(n) ==
    IF n = 0 THEN <<>> ELSE <<n % LimbBase>> \o NFromInt(n \div LimbBase)

\* -1, 0, 1 as a is below, equal to, above b
NCmp(a, b) ==
    IF Len(a) < Len(b) THEN -1
    ELSE IF Len(a) > Len(b) THEN 1
    ELSE IF a = b THEN 0
    ELSE LET n == Len(a)
             i == IF a[n] # b[n] THEN n
                  ELSE CHOOSE i \in 1..n :
                           /\ a[i] # b[i]
                           /\ \A j \in (i + 1)..n : a[j] = b[j]
         IN  IF a[i] < b[i] THEN -1 ELSE 1

\* the carry into limb i of a sum whose limb sums are s
CarryInto(s, i) ==
    IF i = 1 THEN 0
    ELSE IF s[i - 1] # LimbBase - 1 THEN (IF s[i - 1] >= LimbBase THEN 1 ELSE 0)
    ELSE IF \E j \in 1..(i - 2) :
                /\ s[j] >= LimbBase
                /\ \A t \in (j + 1)..(i - 2) : s[t] = LimbBase - 1
         THEN 1 ELSE 0

\* a + b for two sequences of limbs
NAdd(a, b) ==
    LET n == IF Len(a) > Len(b) THEN Len(a) ELSE Len(b)
        s == [i \in 1..n |-> NLimb(a, i) + NLimb(b, i)] \o <<>>
    IN  [i \in 1..n |-> (s[i] + CarryInto(s, i)) % LimbBase]
        \o (IF CarryInto(s, n + 1) = 1 THEN <<1>> ELSE <<>>)

\* the borrow from limb i of a - b
BorrowFrom(a, b, i) ==
    IF i = 1 THEN 0
    ELSE IF a[i - 1] # NLimb(b, i - 1)
         THEN (IF a[i - 1] < NLimb(b, i - 1) THEN 1 ELSE 0)
    ELSE IF \E j \in 1..(i - 2) :
                /\ a[j] < NLimb(b, j)
                /\ \A t \in (j + 1)..(i - 2) : a[t] = NLimb(b, t)
         THEN 1 ELSE 0

\* a - b for a >= b
NSub(a, b) ==
    NNorm([i \in 1..Len(a) |->
              (a[i] - NLimb(b, i) - BorrowFrom(a, b, i) + LimbBase) % LimbBase]
          \o <<>>)

\* a * d for one limb d
NMulSmall(a, d) ==
    IF d = 0 \/ Len(a) = 0 THEN <<>>
    ELSE LET n == Len(a)
         IN  NNorm(NAdd([i \in 1..n |-> (a[i] * d) % LimbBase] \o <<>>,
                        [i \in 1..(n + 1) |->
                            IF i = 1 THEN 0 ELSE (a[i - 1] * d) \div LimbBase]
                        \o <<>>))

\* a * LimbBase^n
NShift(a, n) == IF Len(a) = 0 THEN <<>> ELSE [i \in 1..n |-> 0] \o a

\* the sum of a non-empty sequence of integers, by halving
RECURSIVE SumSeq(_)
SumSeq(f) ==
    IF Len(f) = 1 THEN f[1]
    ELSE SumSeq([i \in 1..((Len(f) + 1) \div 2) |->
                    f[2 * i - 1] + (IF 2 * i <= Len(f) THEN f[2 * i] ELSE 0)]
                \o <<>>)

\* a * b: the column sums of the limb products, then their carries
NMul(a, b) ==
    IF Len(a) = 0 \/ Len(b) = 0 THEN <<>>
    ELSE LET la  == Len(a)
             lb  == Len(b)
             n   == la + lb - 1
             col == [k \in 1..n |->
                        LET lo == IF k - lb + 1 > 1 THEN k - lb + 1 ELSE 1
                            hi == IF la < k THEN la ELSE k
                        IN  SumSeq([t \in 1..(hi - lo + 1) |->
                                       a[lo + t - 1] * b[k - lo - t + 2]] \o <<>>)]
                    \o <<>>
             d0  == [k \in 1..n |-> col[k] % LimbBase] \o <<>>
             d1  == [k \in 1..(n + 1) |->
                        IF k = 1 THEN 0 ELSE (col[k - 1] \div LimbBase) % LimbBase]
                    \o <<>>
             d2  == [k \in 1..(n + 2) |->
                        IF k <= 2 THEN 0
                        ELSE col[k - 2] \div (LimbBase * LimbBase)] \o <<>>
         IN  NNorm(NAdd(NAdd(d0, d1), d2))

\* the largest limb d with d * b <= r, for b # 0 and r < b * LimbBase
QDigit(r, b) ==
    IF NCmp(r, b) < 0 THEN 0
    ELSE IF Len(b) = 1 THEN (NLimb(r, 1) + LimbBase * NLimb(r, 2)) \div b[1]
    ELSE LET n   == Len(b)
             bt  == b[n] * LimbBase + b[n - 1]
             rt  == NLimb(r, n - 1) + LimbBase * NLimb(r, n)
                    + LimbBase * LimbBase * NLimb(r, n + 1)
             est == rt \div bt
             qhi == IF est > LimbBase - 1 THEN LimbBase - 1 ELSE est
         IN  IF NCmp(NMulSmall(b, qhi), r) <= 0 THEN qhi ELSE qhi - 1

\* the end of one step of long division: d is the next limb of the quotient
NDivLimbEnd(b, st, r1, d) ==
    [q |-> <<d>> \o st.q, r |-> NSub(r1, NMulSmall(b, d))]

\* one step of long division: r1 is the remainder with one more limb of the
\* dividend brought down
NDivLimb(b, st, r1) == NDivLimbEnd(b, st, r1, QDigit(r1, b))

\* long division from limb i of a down to its first limb; st holds the limbs
\* of the quotient found so far and the remainder (a quotient never has more
\* limbs than a: the test has TLC compute st before the next step is taken)
RECURSIVE NDivStep(_, _, _, _)
NDivStep(a, b, i, st) ==
    IF i <= 0 \/ Len(st.q) > Len(a) THEN [q |-> NNorm(st.q), r |-> st.r]
    ELSE NDivStep(a, b, i - 1, NDivLimb(b, st, NNorm(<<a[i]>> \o st.r)))

\* quotient and remainder of a by b # 0
NDivMod(a, b) ==
    IF NCmp(a, b) < 0 THEN [q |-> <<>>, r |-> a]
    ELSE NDivStep(a, b, Len(a) - Len(b) + 1,
                  [q |-> <<>>, r |-> SubSeq(a, Len(a) - Len(b) + 2, Len(a))])

RECURSIVE ISqrtIter(_, _)
ISqrtIter(t, x) ==
    IF (x + t \div x) \div 2 >= x THEN x
    ELSE ISqrtIter(t, (x + t \div x) \div 2)

\* floor of the square root of an integer 0 <= t < 10^9
ISqrt(t) ==
    IF t = 0 THEN 0
    ELSE ISqrtIter(t, IF t < 1000 THEN 32
                      ELSE IF t < 1000000 THEN 1000 ELSE 31623)

\* floor of a / 2
NHalf(a) ==
    NNorm([i \in 1..Len(a) |->
              (a[i] + LimbBase * (NLimb(a, i + 1) % 2)) \div 2] \o <<>>)

\* Newton's iteration for the square root of n: y is the value after x, and
\* the iteration ends when it no longer decreases
RECURSIVE NSqrtNext(_, _, _)
NSqrtNext(n, x, y) ==
    IF NCmp(y, x) >= 0 THEN x
    ELSE NSqrtNext(n, y, NHalf(NAdd(y, NDivMod(n, y).q)))

\* floor of the square root of a natural number n # 0, from a first value x
\* that is not below it
NSqrtFrom(n, x) == NSqrtNext(n, x, NHalf(NAdd(x, NDivMod(n, x).q)))

\* the three limbs of n from limb lo on, as an integer
NTop(n, lo) ==
    NLimb(n, lo) + LimbBase * NLimb(n, lo + 1)
    + LimbBase * LimbBase * NLimb(n, lo + 2)

\* the first limb of the two or three limbs at the high end of n that end on
\* an odd limb
NTopFirst(n) ==
    IF Len(n) <= 2 THEN 1
    ELSE IF Len(n) % 2 = 1 THEN Len(n) - 2 ELSE Len(n) - 1

\* floor of the square root of a natural number
NSqrt(n) ==
    IF Len(n) = 0 THEN <<>>
    ELSE NSqrtFrom(n, NShift(NFromInt(ISqrt(NTop(n, NTopFirst(n))) + 1),
                             (NTopFirst(n) - 1) \div 2))

(***************************************************************************)
(* Decimals: new BN(v), plus, minus, times, div, sqrt, abs, comparisons,   *)
(* decimalPlaces(dp, ROUND_FLOOR), BN.min.                                 *)
(***************************************************************************)
ZERO == [k |-> "fin", neg |-> FALSE, m |-> <<>>, e |-> 0]

NaN == [k |-> "nan", neg |-> FALSE, m |-> <<>>, e |-> 0]

Infinity(neg) == [k |-> "inf", neg |-> neg, m |-> <<>>, e |-> 0]

\* the canonical finite decimal of sign neg, coefficient m (without zero
\* limbs at its high end) and e limbs after the point
Canon(neg, m, e) ==
    IF Len(m) = 0 THEN ZERO
    ELSE LET z == IF e = 0 \/ m[1] # 0 THEN 0
                  ELSE CHOOSE z \in 1..e :
                           /\ \A j \in 1..z : m[j] = 0
                           /\ z = e \/ m[z + 1] # 0
         IN  [k |-> "fin", neg |-> neg, m |-> SubSeq(m, z + 1, Len(m)),
              e |-> e - z]

\* the decimal n / LimbBase^e for an integer n
Dec(n, e) == Canon(n < 0, NFromInt(IF n < 0 THEN -n ELSE n), e)

ONE == Dec(1, 0)

IsFin(a) == a.k = "fin"

IsZero(a) == a.k = "fin" /\ a.m = <<>>

Neg(a) ==
    IF a.k = "nan" \/ IsZero(a) THEN a ELSE [a EXCEPT !.neg = ~a.neg]

Abs(a) == [a EXCEPT !.neg = FALSE]

\* the coefficient of a finite decimal at e limbs after the point, e >= a.e
Scaled(a, e) == NShift(a.m, e - a.e)

MaxE(a, b) == IF a.e > b.e THEN a.e ELSE b.e

\* -1, 0 or 1 as the finite a is below, equal to or above the finite b
CmpFin(a, b) ==
    IF a.neg # b.neg THEN (IF a.neg THEN -1 ELSE 1)
    ELSE (IF a.neg THEN -1 ELSE 1)
         * NCmp(Scaled(a, MaxE(a, b)), Scaled(b, MaxE(a, b)))

\* comparedTo: 2 stands for bignumber.js's null (a NaN is involved)
Cmp(a, b) ==
    IF a.k = "nan" \/ b.k = "nan" THEN 2
    ELSE IF a.k = "inf" /\ b.k = "inf"
         THEN (IF a.neg = b.neg THEN 0 ELSE IF a.neg THEN -1 ELSE 1)
    ELSE IF a.k = "inf" THEN (IF a.neg THEN -1 ELSE 1)
    ELSE IF b.k = "inf" THEN (IF b.neg THEN 1 ELSE -1)
    ELSE CmpFin(a, b)

Gt(a, b) == Cmp(a, b) = 1

Lt(a, b) == Cmp(a, b) = -1

Gte(a, b) == Cmp(a, b) \in {0, 1}

Lte(a, b) == Cmp(a, b) \in {0, -1}

Eq(a, b) == Cmp(a, b) = 0

\* the sum of two finite decimals whose coefficients at e limbs after the
\* point are am and bm
PlusScaled(aneg, am, bneg, bm, e) ==
    IF aneg = bneg THEN Canon(aneg, NAdd(am, bm), e)
    ELSE IF NCmp(am, bm) >= 0 THEN Canon(aneg, NSub(am, bm), e)
    ELSE Canon(bneg, NSub(bm, am), e)

PlusFin(a, b) ==
    PlusScaled(a.neg, Scaled(a, MaxE(a, b)), b.neg, Scaled(b, MaxE(a, b)),
               MaxE(a, b))

Plus(a, b) ==
    IF a.k = "nan" \/ b.k = "nan" THEN NaN
    ELSE IF a.k = "inf" /\ b.k = "inf"
         THEN (IF a.neg = b.neg THEN a ELSE NaN)
    ELSE IF a.k = "inf" THEN a
    ELSE IF b.k = "inf" THEN b
    ELSE PlusFin(a, b)

Minus(a, b) == Plus(a, Neg(b))

Times(a, b) ==
    IF a.k = "nan" \/ b.k = "nan" THEN NaN
    ELSE IF a.k = "inf" \/ b.k = "inf"
         THEN (IF IsZero(a) \/ IsZero(b) THEN NaN ELSE Infinity(a.neg # b.neg))
    ELSE Canon(a.neg # b.neg, NMul(a.m, b.m), a.e + b.e)

\* a / b rounded to DECIMAL_PLACES with ROUND_DOWN (towards zero)
Div(a, b) ==
    IF a.k = "nan" \/ b.k = "nan" THEN NaN
    ELSE IF a.k = "inf" THEN (IF b.k = "inf" THEN NaN ELSE Infinity(a.neg # b.neg))
    ELSE IF b.k = "inf" THEN ZERO
    ELSE IF IsZero(b) THEN (IF IsZero(a) THEN NaN ELSE Infinity(a.neg # b.neg))
    ELSE LET up   == b.e + DivLimbs
             down == a.e
             c    == IF up < down THEN up ELSE down
         IN  Canon(a.neg # b.neg,
                   NDivMod(NShift(a.m, up - c), NShift(b.m, down - c)).q,
                   DivLimbs)

\* the square root rounded to DECIMAL_PLACES with ROUND_DOWN
Sqrt(a) ==
    IF a.k = "nan" THEN NaN
    ELSE IF IsZero(a) THEN a
    ELSE IF a.neg THEN NaN
    ELSE IF a.k = "inf" THEN a
    ELSE LET n == IF a.e <= 2 * DivLimbs
                  THEN NShift(a.m, 2 * DivLimbs - a.e)
                  ELSE SubSeq(a.m, a.e - 2 * DivLimbs + 1, Len(a.m))
         IN  Canon(FALSE, NSqrt(n), DivLimbs)

\* decimalPlaces(dp, BN.ROUND_FLOOR) for dp a multiple of DigitsPerLimb
DecimalPlacesFloor(a, dp) ==
    LET l == dp \div DigitsPerLimb
    IN  IF a.k # "fin" \/ a.e <= l THEN a
        ELSE LET t == SubSeq(a.m, a.e - l + 1, Len(a.m))
             IN  Canon(a.neg, IF a.neg THEN NAdd(t, <<1>>) ELSE t, l)

\* BN.min of two values
Min(a, b) ==
    IF a.k = "nan" \/ b.k = "nan" THEN NaN
    ELSE IF Lt(b, a) THEN b ELSE a

(***************************************************************************)
(* valueOf(): the string a BN object turns into when JavaScript's < is     *)
(* applied to it.  A string is a sequence of character codes.              *)
(***************************************************************************)
TO_EXP_NEG == -7

TO_EXP_POS == 21

CharZero == 48

CharMinus == 45

CharPlus == 43

CharPoint == 46

CharE == 101

LimbDigits(l) == <<l \div 100, (l \div 10) % 10, l % 10>>

\* the decimal digits of a natural number, most significant first, in
\* groups of three (up to two leading zeros)
AllDigits(m) ==
    [i \in 1..(DigitsPerLimb * Len(m)) |->
        LimbDigits(m[Len(m) - (i - 1) \div DigitsPerLimb])[((i - 1) % DigitsPerLimb) + 1]]
    \o <<>>

\* d without its leading zeros, d without its trailing zeros
StripLeft(d) ==
    IF \A i \in 1..Len(d) : d[i] = 0 THEN <<>>
    ELSE LET f == CHOOSE f \in 1..Len(d) :
                      d[f] # 0 /\ \A j \in 1..(f - 1) : d[j] = 0
         IN  SubSeq(d, f, Len(d))

StripRight(d) ==
    IF \A i \in 1..Len(d) : d[i] = 0 THEN <<>>
    ELSE IF d[Len(d)] # 0 THEN d
    ELSE LET l == CHOOSE l \in 1..Len(d) :
                      d[l] # 0 /\ \A j \in (l + 1)..Len(d) : d[j] = 0
         IN  SubSeq(d, 1, l)

Chars(d) == [i \in 1..Len(d) |-> CharZero + d[i]]

Zeros(n) == [i \in 1..n |-> CharZero]

RECURSIVE NatChars(_)
NatChars(n) ==
    IF n < 10 THEN <<CharZero + n>>
    ELSE NatChars(n \div 10) \o <<CharZero + (n % 10)>>

\* coeffToString and the decimal exponent of a finite non-zero decimal
Coeff(a) == StripRight(StripLeft(AllDigits(a.m)))

Exponent(a) ==
    Len(StripLeft(AllDigits(a.m))) - DigitsPerLimb * a.e - 1

ToExponential(c, ex) ==
    (IF Len(c) > 1 THEN <<c[1]>> \o <<CharPoint>> \o Tail(c) ELSE c)
    \o (IF ex < 0 THEN <<CharE, CharMinus>> \o NatChars(-ex)
        ELSE <<CharE, CharPlus>> \o NatChars(ex))

ToFixedPoint(c, ex) ==
    IF ex < 0 THEN <<CharZero, CharPoint>> \o Zeros(-ex - 1) \o c
    ELSE IF Len(c) <= ex + 1 THEN c \o Zeros(ex + 1 - Len(c))
    ELSE SubSeq(c, 1, ex + 1) \o <<CharPoint>> \o SubSeq(c, ex + 2, Len(c))

ValueOf(a) ==
    IF a.k = "nan" THEN <<78, 97, 78>>
    ELSE IF a.k = "inf"
         THEN (IF a.neg THEN <<CharMinus>> ELSE <<>>)
              \o <<73, 110, 102, 105, 110, 105, 116, 121>>
    ELSE IF IsZero(a) THEN <<CharZero>>
    ELSE (IF a.neg THEN <<CharMinus>> ELSE <<>>)
         \o (IF Exponent(a) <= TO_EXP_NEG \/ Exponent(a) >= TO_EXP_POS
             THEN ToExponential(Chars(Coeff(a)), Exponent(a))
             ELSE ToFixedPoint(Chars(Coeff(a)), Exponent(a)))

\* s < t for two JavaScript strings: the order of their code units
StringLess(s, t) ==
    LET n == IF Len(s) < Len(t) THEN Len(s) ELSE Len(t)
    IN  IF \A i \in 1..n : s[i] = t[i] THEN Len(s) < Len(t)
        ELSE LET f == CHOOSE f \in 1..n :
                          s[f] # t[f] /\ \A j \in 1..(f - 1) : s[j] = t[j]
             IN  s[f] < t[f]

\* a < b written with JavaScript's operator on two BN objects: both turn
\* into their valueOf() strings, which are compared as strings
JsLess(a, b) == StringLess(ValueOf(a), ValueOf(b))

(***************************************************************************)
(* The configurations and the prices of the model.                         *)
(***************************************************************************)
MINUTES_IN_YEAR == 365 * 24 * 60

\* the most price ticks of a run
MaxTicks == 2

\* the configuration of index.ts, started at the price 2.00
DefaultConfig ==
    [usdtToInvest         |-> Dec(1000000, 0),
     ratio                |-> Dec(330, 1),
     ammSupplyInterest    |-> Dec(200, 1),
     borrowInterest       |-> Dec(20, 1),
     supplyInterest       |-> Dec(80, 1),
     liquidationThreshold |-> Dec(1250, 1),
     initialPrice         |-> Dec(2, 0),
     swapFee              |-> Dec(10, 1),
     interestPeriod       |-> Dec(5, 0)]

\* a swap fee of one half
HighFeeConfig == [DefaultConfig EXCEPT !.swapFee = Dec(500, 1)]

\* one tick a year
YearlyConfig == [DefaultConfig EXCEPT !.interestPeriod = Dec(MINUTES_IN_YEAR, 0)]

\* no interest and no yield
NoInterestConfig ==
    [DefaultConfig EXCEPT !.ammSupplyInterest = ZERO, !.borrowInterest = ZERO,
                          !.supplyInterest = ZERO]

\* a capital of 1000, 0.4 of it for the AMM, started at the price 3.00,
\* without a swap fee: the amount borrowed is 133.333333333
SmallConfig ==
    [DefaultConfig EXCEPT !.usdtToInvest = Dec(1000, 0), !.ratio = Dec(400, 1),
                          !.initialPrice = Dec(3, 0), !.swapFee = ZERO]

Configs ==
    {DefaultConfig, HighFeeConfig, YearlyConfig, NoInterestConfig, SmallConfig}

\* the prices a tick may bring: 1.00, 1.50, 1.80, 2.00, 2.20, 2.50, 3.00
Prices ==
    {Dec(1, 0), Dec(1500, 1), Dec(1800, 1), Dec(2, 0), Dec(2200, 1),
     Dec(2500, 1), Dec(3, 0)}

\* prices that are not prices: 0 and -1
NonPositivePrices == {ZERO, Dec(-1, 0)}

(***************************************************************************)
(* The strategy object: the fields of Strategy, of its LendingPosition, of *)
(* its AMMPosition and of the PriceProvider they share, in one record.     *)
(***************************************************************************)
\* a variant of the constructor that borrows the AMM's reserveY at the
\* price 1; InitialAllocation tells the two apart
NewStrategyBorrowingAtPar(c) ==
    LET ammReserveY       == Times(c.usdtToInvest, c.ratio)
        lendingCollateral == Minus(c.usdtToInvest, ammReserveY)
        amountToBorrow    == ammReserveY
    IN  [idealRatio           |-> c.ratio,
         swapFee              |-> c.swapFee,
         unusedTON            |-> ZERO,
         unusedUSDT           |-> ZERO,
         interestPeriod       |-> c.interestPeriod,
         lastRebalancePrice   |-> c.initialPrice,
         currentPrice         |-> c.initialPrice,
         collateral           |-> lendingCollateral,
         debt                 |-> amountToBorrow,
         liquidationThreshold |-> c.liquidationThreshold,
         borrowingInterest    |-> c.borrowInterest,
         supplyInterest       |-> c.supplyInterest,
         initialReserveX      |-> amountToBorrow,
         initialReserveY      |-> ammReserveY,
         ammSupplyInterest    |-> c.ammSupplyInterest,
         totalRebalances      |-> 0]

\* new Strategy(...)
NewStrategy(c) ==
    LET ammReserveY       == Times(c.usdtToInvest, c.ratio)
        lendingCollateral == Minus(c.usdtToInvest, ammReserveY)
        amountToBorrow    == Div(ammReserveY, c.initialPrice)
    IN  [idealRatio           |-> c.ratio,
         swapFee              |-> c.swapFee,
         unusedTON            |-> ZERO,
         unusedUSDT           |-> ZERO,
         interestPeriod       |-> c.interestPeriod,
         lastRebalancePrice   |-> c.initialPrice,
         currentPrice         |-> c.initialPrice,
         collateral           |-> lendingCollateral,
         debt                 |-> amountToBorrow,
         liquidationThreshold |-> c.liquidationThreshold,
         borrowingInterest    |-> c.borrowInterest,
         supplyInterest       |-> c.supplyInterest,
         initialReserveX      |-> amountToBorrow,
         initialReserveY      |-> ammReserveY,
         ammSupplyInterest    |-> c.ammSupplyInterest,
         totalRebalances      |-> 0]

\* PriceProvider.setPrice
setPrice(s, newPrice) == [s EXCEPT !.currentPrice = newPrice]

(***************************************************************************)
(* Below, a local of the code that is read more than once is the parameter *)
(* of a local operator, which is applied to the expression the code        *)
(* assigns to the local.                                                   *)
(***************************************************************************)
\* a variant of getReservesForCurrentPrice that divides the root of k by
\* the price; ConstantProduct tells the two apart
getReservesDividingTheRoot(s) ==
    LET reserves(newReserveX) ==
            [reserveX |-> newReserveX,
             reserveY |-> Times(s.currentPrice, newReserveX)]
    IN  reserves(Div(Sqrt(Times(s.initialReserveX, s.initialReserveY)),
                     s.currentPrice))

\* AMMPosition.getReservesForCurrentPrice
getReservesForCurrentPrice(s) ==
    LET reserves(newReserveX) ==
            [reserveX |-> newReserveX,
             reserveY |-> Times(s.currentPrice, newReserveX)]
    IN  reserves(Sqrt(Div(Times(s.initialReserveX, s.initialReserveY),
                          s.currentPrice)))

\* AMMPosition.estimatePositionValueInY
estimatePositionValueInY(s) ==
    LET value(r) == Plus(Times(r.reserveX, s.currentPrice), r.reserveY)
    IN  value(getReservesForCurrentPrice(s))

\* AMMPosition.generateYield
generateYield(s, periodInMinutes) ==
    Div(Times(Times(estimatePositionValueInY(s), s.ammSupplyInterest),
              periodInMinutes),
        Dec(MINUTES_IN_YEAR, 0))

\* LendingPosition.getDebtValue
getDebtValue(s) == Times(s.debt, s.currentPrice)

\* LendingPosition.estimatePositionValue
estimatePositionValue(s) == Minus(s.collateral, getDebtValue(s))

\* a variant of isLiquidatable that compares the debt in TON, not its value,
\* with the boundary; InsolvencyEndsTheTick tells the two apart
isLiquidatableByAmount(s) ==
    Gt(s.debt, Div(s.collateral, s.liquidationThreshold))

\* LendingPosition.isLiquidatable
isLiquidatable(s) ==
    Gt(getDebtValue(s), Div(s.collateral, s.liquidationThreshold))

\* a variant of accrueInterest that pays no interest on the collateral;
\* ConstantPriceTick tells the two apart
accrueInterestOnDebt(s, periodInMinutes) ==
    [s EXCEPT
        !.debt = DecimalPlacesFloor(
                     Times(s.debt,
                           Plus(ONE, Div(Times(s.borrowingInterest, periodInMinutes),
                                         Dec(MINUTES_IN_YEAR, 0)))),
                     9)]

\* LendingPosition.accrueInterest, up to its liquidation test
accrueInterest(s, periodInMinutes) ==
    [s EXCEPT
        !.debt = DecimalPlacesFloor(
                     Times(s.debt,
                           Plus(ONE, Div(Times(s.borrowingInterest, periodInMinutes),
                                         Dec(MINUTES_IN_YEAR, 0)))),
                     9),
        !.collateral = DecimalPlacesFloor(
                     Times(s.collateral,
                           Plus(ONE, Div(Times(s.supplyInterest, periodInMinutes),
                                         Dec(MINUTES_IN_YEAR, 0)))),
                     6)]

\* Strategy.estimateUnusedFundsValue
estimateUnusedFundsValue(s) ==
    Plus(Times(s.unusedTON, s.currentPrice), s.unusedUSDT)

\* Strategy.estimateTotalStrategyValue
estimateTotalStrategyValue(s) ==
    Plus(Plus(estimatePositionValue(s), estimatePositionValueInY(s)),
         estimateUnusedFundsValue(s))

\* Strategy.computeIdealSetupForCurrentPrice
computeIdealSetupForCurrentPrice(s) ==
    LET setup(totalValue, idealAmmReserveY) ==
            [idealLendingCollateral |-> Minus(totalValue, idealAmmReserveY),
             idealAmountToBorrow    |-> Div(idealAmmReserveY, s.currentPrice),
             idealAmmReserveY       |-> idealAmmReserveY]
        ideal(totalValue) == setup(totalValue, Times(totalValue, s.idealRatio))
    IN  ideal(estimateTotalStrategyValue(s))

\* Strategy.computeDeviationFromIdealSetup
computeDeviationFromIdealSetup(s) ==
    LET deviation(ideal, currentAmmReserveY) ==
            [deviationAmmReserveY       |->
                 Minus(currentAmmReserveY, ideal.idealAmmReserveY),
             deviationLendingCollateral |->
                 Minus(s.collateral, ideal.idealLendingCollateral),
             deviationAmountToBorrow    |->
                 Minus(s.debt, ideal.idealAmountToBorrow)]
    IN  deviation(computeIdealSetupForCurrentPrice(s),
                  getReservesForCurrentPrice(s).reserveY)

\* a variant of deviationRatio that sees no deviation; PriceJump tells the
\* two apart
noDeviationRatio(s) == ZERO

\* a variant of deviationRatio without the absolute value;
\* TickWithinThresholdDoesNotRebalance tells the two apart
signedDeviationRatio(s) ==
    Div(computeDeviationFromIdealSetup(s).deviationAmmReserveY,
        getReservesForCurrentPrice(s).reserveY)

\* the ratio nextPrice compares with 0.1
deviationRatio(s) ==
    Abs(Div(computeDeviationFromIdealSetup(s).deviationAmmReserveY,
            getReservesForCurrentPrice(s).reserveY))

\* the record of one call of a cover function: s is the strategy before the
\* call, after the strategy after it, covered the amount returned
Call(fn, s, amount, after, covered) ==
    [fn |-> fn, amount |-> amount, covered |-> covered,
     price |-> s.currentPrice, swapFee |-> s.swapFee,
     tonBefore |-> s.unusedTON, usdtBefore |-> s.unusedUSDT,
     tonAfter |-> after.unusedTON, usdtAfter |-> after.unusedUSDT]

\* a variant of coverAmountWithUSDT whose swap pays no fee;
\* SwapConservation tells the two apart
coverAmountWithUSDTWithoutFee(s, amount) ==
    LET result(after, returned) ==
            [s |-> after, covered |-> returned,
             call |-> Call("coverAmountWithUSDT", s, amount, after, returned)]
        swap(covered, swapFee, tonToSwap) ==
            result([s EXCEPT !.unusedUSDT = Minus(s.unusedUSDT, covered),
                             !.unusedTON = Minus(s.unusedTON, tonToSwap)],
                   Plus(covered, Times(tonToSwap, s.currentPrice)))
        cover(covered, swapFee) ==
            swap(covered, swapFee,
                 Min(s.unusedTON,
                     Div(Div(Minus(amount, covered), s.currentPrice), swapFee)))
    IN  cover(Min(s.unusedUSDT, amount), Minus(ONE, s.swapFee))

\* Strategy.coverAmountWithUSDT: the strategy after the call, the amount it
\* returns and the record of the call
coverAmountWithUSDT(s, amount) ==
    LET result(after, returned) ==
            [s |-> after, covered |-> returned,
             call |-> Call("coverAmountWithUSDT", s, amount, after, returned)]
        swap(covered, swapFee, tonToSwap) ==
            result([s EXCEPT !.unusedUSDT = Minus(s.unusedUSDT, covered),
                             !.unusedTON = Minus(s.unusedTON, tonToSwap)],
                   Plus(covered, Times(Times(tonToSwap, swapFee), s.currentPrice)))
        cover(covered, swapFee) ==
            swap(covered, swapFee,
                 Min(s.unusedTON,
                     Div(Div(Minus(amount, covered), s.currentPrice), swapFee)))
    IN  cover(Min(s.unusedUSDT, amount), Minus(ONE, s.swapFee))

\* a variant of coverAmountWithTON that swaps what the rest of the amount
\* costs, whatever unusedUSDT holds; UnusedBalancesNeverNegative tells the
\* two apart
coverAmountWithTONSwappingUnbounded(s, amount) ==
    LET result(after, returned) ==
            [s |-> after, covered |-> returned,
             call |-> Call("coverAmountWithTON", s, amount, after, returned)]
        swap(covered, swapFee, usdtToSwap) ==
            result([s EXCEPT !.unusedTON = Minus(s.unusedTON, covered),
                             !.unusedUSDT = Minus(s.unusedUSDT, usdtToSwap)],
                   Plus(covered, Div(Times(usdtToSwap, swapFee), s.currentPrice)))
        cover(covered, swapFee) ==
            swap(covered, swapFee,
                 Div(Times(Minus(amount, covered), s.currentPrice), swapFee))
    IN  cover(Min(s.unusedTON, amount), Minus(ONE, s.swapFee))

\* Strategy.coverAmountWithTON
coverAmountWithTON(s, amount) ==
    LET result(after, returned) ==
            [s |-> after, covered |-> returned,
             call |-> Call("coverAmountWithTON", s, amount, after, returned)]
        swap(covered, swapFee, usdtToSwap) ==
            result([s EXCEPT !.unusedTON = Minus(s.unusedTON, covered),
                             !.unusedUSDT = Minus(s.unusedUSDT, usdtToSwap)],
                   Plus(covered, Div(Times(usdtToSwap, swapFee), s.currentPrice)))
        cover(covered, swapFee) ==
            swap(covered, swapFee,
                 Min(s.unusedUSDT,
                     Div(Times(Minus(amount, covered), s.currentPrice), swapFee)))
    IN  cover(Min(s.unusedTON, amount), Minus(ONE, s.swapFee))

\* a variant of withdrawExcessesFromAMM that credits unusedTON with the
\* whole reserveX; RebalanceNeverCreatesValue tells the two apart
withdrawWholeReserveX(s) ==
    LET withdraw(r, idealReserveX, idealReserveY) ==
            [s EXCEPT !.initialReserveX = idealReserveX,
                      !.initialReserveY = idealReserveY,
                      !.unusedTON = Plus(s.unusedTON, r.reserveX),
                      !.unusedUSDT = Plus(s.unusedUSDT,
                                          Minus(r.reserveY, idealReserveY))]
        downTo(r, idealReserveY) ==
            withdraw(r, Div(Times(r.reserveX, idealReserveY), r.reserveY),
                     idealReserveY)
        step(deviations, r) ==
            IF Gt(deviations.deviationAmmReserveY, ZERO)
            THEN downTo(r, Minus(r.reserveY, deviations.deviationAmmReserveY))
            ELSE s
    IN  step(computeDeviationFromIdealSetup(s), getReservesForCurrentPrice(s))

\* Strategy.withdrawExcessesFromAMM
withdrawExcessesFromAMM(s) ==
    LET withdraw(r, idealReserveX, idealReserveY) ==
            [s EXCEPT !.initialReserveX = idealReserveX,
                      !.initialReserveY = idealReserveY,
                      !.unusedTON = Plus(s.unusedTON,
                                         Minus(r.reserveX, idealReserveX)),
                      !.unusedUSDT = Plus(s.unusedUSDT,
                                          Minus(r.reserveY, idealReserveY))]
        downTo(r, idealReserveY) ==
            withdraw(r, Div(Times(r.reserveX, idealReserveY), r.reserveY),
                     idealReserveY)
        step(deviations, r) ==
            IF Gt(deviations.deviationAmmReserveY, ZERO)
            THEN downTo(r, Minus(r.reserveY, deviations.deviationAmmReserveY))
            ELSE s
    IN  step(computeDeviationFromIdealSetup(s), getReservesForCurrentPrice(s))

\* a variant of withdrawExcessesFromLendingCollateral that credits nothing
\* to unusedUSDT; StepsOneTwoFiveAreTransfers tells the two apart
withdrawWithoutCredit(s) ==
    LET step(amountToWithdraw) ==
            IF Gt(amountToWithdraw, ZERO)
            THEN [s EXCEPT !.collateral = Minus(s.collateral, amountToWithdraw)]
            ELSE s
    IN  step(computeDeviationFromIdealSetup(s).deviationLendingCollateral)

\* Strategy.withdrawExcessesFromLendingCollateral
withdrawExcessesFromLendingCollateral(s) ==
    LET step(amountToWithdraw) ==
            IF Gt(amountToWithdraw, ZERO)
            THEN [s EXCEPT !.collateral = Minus(s.collateral, amountToWithdraw),
                           !.unusedUSDT = Plus(s.unusedUSDT, amountToWithdraw)]
            ELSE s
    IN  step(computeDeviationFromIdealSetup(s).deviationLendingCollateral)

\* Strategy.coverOutstandingBorrowedAmount: the strategy after the call and
\* the records of its calls of the cover functions
coverOutstandingBorrowedAmount(s) ==
    LET repay(c) ==
            [s     |-> [c.s EXCEPT !.debt = Minus(c.s.debt, c.covered)],
             calls |-> <<c.call>>]
        step(deviation) ==
            IF Gt(deviation, ZERO)
            THEN repay(coverAmountWithTON(s, Abs(deviation)))
            ELSE [s |-> s, calls |-> <<>>]
    IN  step(computeDeviationFromIdealSetup(s).deviationAmountToBorrow)

\* Strategy.coverOutstandingCollateral
coverOutstandingCollateral(s) ==
    LET supply(c) ==
            [s     |-> [c.s EXCEPT !.collateral = Plus(c.s.collateral, c.covered)],
             calls |-> <<c.call>>]
        step(deviation) ==
            IF Lt(deviation, ZERO)
            THEN supply(coverAmountWithUSDT(s, Abs(deviation)))
            ELSE [s |-> s, calls |-> <<>>]
    IN  step(computeDeviationFromIdealSetup(s).deviationLendingCollateral)

\* Strategy.borrowUntilIdealSetup
borrowUntilIdealSetup(s) ==
    LET step(deviation) ==
            IF Lt(deviation, ZERO)
            THEN [s EXCEPT !.debt = Plus(s.debt, Abs(deviation)),
                           !.unusedTON = Plus(s.unusedTON, Abs(deviation))]
            ELSE s
    IN  step(computeDeviationFromIdealSetup(s).deviationAmountToBorrow)

\* areValuesClose with its default threshold 0.001
areValuesClose(a, b) == Lt(Abs(Minus(a, b)), Dec(1, 1))

\* what addOutstandingLiquidityToAMM asks the cover functions for, once its
\* test deviationRatio < -0.05 has passed: neededX and neededY are the
\* amounts that bring the reserves r to the ideal, outstandingX and
\* outstandingY the amounts asked for
outstandingLiquidity(s, deviations, r) ==
    LET request(neededX, neededY, totalUnused, totalOutstanding, capped) ==
            [totalUnused      |-> totalUnused,
             totalOutstanding |-> totalOutstanding,
             capped           |-> capped,
             neededX          |-> neededX,
             neededY          |-> neededY,
             outstandingX     |->
                 IF capped
                 THEN Times(neededX, Div(totalUnused, totalOutstanding))
                 ELSE neededX,
             outstandingY     |->
                 IF capped
                 THEN Times(neededY, Div(totalUnused, totalOutstanding))
                 ELSE neededY]
        cap(neededX, neededY, totalUnused, totalOutstanding) ==
            request(neededX, neededY, totalUnused, totalOutstanding,
                    JsLess(totalUnused, totalOutstanding))
        outstanding(neededX, neededY) ==
            cap(neededX, neededY,
                Times(estimateUnusedFundsValue(s), Minus(ONE, s.swapFee)),
                Plus(Times(neededX, s.currentPrice), neededY))
        upTo(idealReserveX, idealReserveY) ==
            outstanding(Minus(idealReserveX, r.reserveX),
                        Minus(idealReserveY, r.reserveY))
        ideal(idealReserveY) ==
            upTo(Div(Times(r.reserveX, idealReserveY), r.reserveY), idealReserveY)
    IN  ideal(Minus(r.reserveY, deviations.deviationAmmReserveY))

\* a variant of addOutstandingLiquidityToAMM that adds nothing;
\* RebalanceConvergesAtLowFee tells the two apart
addNoLiquidityToAMM(s) == [s |-> s, threw |-> FALSE, calls |-> <<>>]

\* a variant of addOutstandingLiquidityToAMM that writes the anchor without
\* comparing the price of the amounts obtained with the current price;
\* AnchorWrittenAtCurrentPrice tells the two apart
addOutstandingLiquidityUnchecked(s) ==
    LET add(r, cx, cy) ==
            [s     |-> [cy.s EXCEPT
                           !.initialReserveX = Plus(r.reserveX, cx.covered),
                           !.initialReserveY = Plus(r.reserveY, cy.covered)],
             threw |-> FALSE,
             calls |-> <<cx.call, cy.call>>]
        coverY(r, o, cx) == add(r, cx, coverAmountWithUSDT(cx.s, o.outstandingY))
        coverX(r, o) == coverY(r, o, coverAmountWithTON(s, o.outstandingX))
        step(deviations, r) ==
            IF Lt(Div(deviations.deviationAmmReserveY, r.reserveY), Dec(-50, 1))
            THEN coverX(r, outstandingLiquidity(s, deviations, r))
            ELSE [s |-> s, threw |-> FALSE, calls |-> <<>>]
    IN  step(computeDeviationFromIdealSetup(s), getReservesForCurrentPrice(s))

\* Strategy.addOutstandingLiquidityToAMM: the strategy after the call,
\* whether the call threw, and the records of its calls of the cover
\* functions
addOutstandingLiquidityToAMM(s) ==
    LET add(r, cx, cy) ==
            IF ~areValuesClose(Div(cy.covered, cx.covered), s.currentPrice)
            THEN [s |-> cy.s, threw |-> TRUE, calls |-> <<cx.call, cy.call>>]
            ELSE [s     |-> [cy.s EXCEPT
                                 !.initialReserveX = Plus(r.reserveX, cx.covered),
                                 !.initialReserveY = Plus(r.reserveY, cy.covered)],
                  threw |-> FALSE,
                  calls |-> <<cx.call, cy.call>>]
        coverY(r, o, cx) == add(r, cx, coverAmountWithUSDT(cx.s, o.outstandingY))
        coverX(r, o) == coverY(r, o, coverAmountWithTON(s, o.outstandingX))
        step(deviations, r) ==
            IF Lt(Div(deviations.deviationAmmReserveY, r.reserveY), Dec(-50, 1))
            THEN coverX(r, outstandingLiquidity(s, deviations, r))
            ELSE [s |-> s, threw |-> FALSE, calls |-> <<>>]
    IN  step(computeDeviationFromIdealSetup(s), getReservesForCurrentPrice(s))

\* 0.00001, the epsilon of the sanity check of rebalance()
Epsilon == Dec(10, 2)

\* one of the six steps of rebalance(): the strategy after it and whether
\* it threw
rebalanceStep(s, step) ==
    CASE step = 1 -> [s |-> withdrawExcessesFromAMM(s), threw |-> FALSE]
      [] step = 2 -> [s |-> withdrawExcessesFromLendingCollateral(s),
                      threw |-> FALSE]
      [] step = 3 -> [s |-> coverOutstandingBorrowedAmount(s).s, threw |-> FALSE]
      [] step = 4 -> [s |-> coverOutstandingCollateral(s).s, threw |-> FALSE]
      [] step = 5 -> [s |-> borrowUntilIdealSetup(s), threw |-> FALSE]
      [] step = 6 -> [f \in {"s", "threw"} |->
                         addOutstandingLiquidityToAMM(s)[f]]

\* the steps of rebalance() from the given one on
RECURSIVE rebalanceFrom(_, _)
rebalanceFrom(st, step) ==
    IF st.threw \/ step > 6 THEN st
    ELSE rebalanceFrom(rebalanceStep(st.s, step), step + 1)

\* Strategy.rebalance as one call on the strategy s: the strategy after the
\* call and the Error it throws
rebalance(s) ==
    LET ended(st, valueBeforeRebalance) ==
            IF st.threw THEN [s |-> st.s, error |-> "priceMismatch"]
            ELSE [s     |-> [st.s EXCEPT !.totalRebalances = @ + 1],
                  error |-> IF Gt(estimateTotalStrategyValue(st.s),
                                  Plus(valueBeforeRebalance, Epsilon))
                            THEN "valueIncreased" ELSE "none"]
    IN  ended(rebalanceFrom([s |-> s, threw |-> FALSE], 1),
              estimateTotalStrategyValue(s))

(***************************************************************************)
(* The state machine.  pc is the position of the one thread of control:    *)
(* "idle" between two calls of nextPrice, "rebalance" at the entry of      *)
(* rebalance(), "step1" .. "step6" before each of its six steps, "check"   *)
(* before its sanity check, "failed" once an Error has been thrown (the    *)
(* driver has no handler: the run is over).                                *)
(***************************************************************************)
VARIABLES
    strategy,               \* the Strategy object
    pc,                     \* the position in nextPrice / rebalance
    valueBeforeRebalance,   \* the local of rebalance()
    error,                  \* the Error thrown, "none" if none
    ticks,                  \* the calls of nextPrice so far
    calls,                  \* the calls of the cover functions by the last step
    priceMoved              \* history: a tick has brought a price other than
                            \* the initial price

vars == <<strategy, pc, valueBeforeRebalance, error, ticks, calls, priceMoved>>

Init ==
    /\ strategy \in {NewStrategy(c) : c \in Configs}
    /\ pc = "idle"
    /\ valueBeforeRebalance = ZERO
    /\ error = "none"
    /\ ticks = 0
    /\ calls = <<>>
    /\ priceMoved = FALSE

\* Strategy.nextPrice up to its call of rebalance()
NextPrice(newPrice) ==
    /\ pc = "idle"
    /\ ticks < MaxTicks
    /\ ticks' = ticks + 1
    /\ calls' = <<>>
    /\ priceMoved' = (priceMoved \/ newPrice # strategy.currentPrice)
    /\ UNCHANGED valueBeforeRebalance
    /\ LET yielded(s) ==
               /\ strategy' = s
               /\ pc' = IF Gt(deviationRatio(s), Dec(100, 1))
                        THEN "rebalance" ELSE "idle"
               /\ UNCHANGED error
           tick(accrued) ==
               IF isLiquidatable(accrued)
               THEN /\ strategy' = accrued
                    /\ pc' = "failed"
                    /\ error' = "insolvency"
               ELSE yielded([accrued EXCEPT
                                !.unusedUSDT =
                                    Plus(accrued.unusedUSDT,
                                         generateYield(accrued,
                                                       accrued.interestPeriod))])
       IN  tick(accrueInterest(setPrice(strategy, newPrice),
                               strategy.interestPeriod))

\* Strategy.rebalance: the value before the six steps
Rebalance ==
    /\ pc = "rebalance"
    /\ valueBeforeRebalance' = estimateTotalStrategyValue(strategy)
    /\ pc' = "step1"
    /\ UNCHANGED <<strategy, error, ticks, calls, priceMoved>>

Step1 ==
    /\ pc = "step1"
    /\ strategy' = withdrawExcessesFromAMM(strategy)
    /\ pc' = "step2"
    /\ calls' = <<>>
    /\ UNCHANGED <<valueBeforeRebalance, error, ticks, priceMoved>>

Step2 ==
    /\ pc = "step2"
    /\ strategy' = withdrawExcessesFromLendingCollateral(strategy)
    /\ pc' = "step3"
    /\ calls' = <<>>
    /\ UNCHANGED <<valueBeforeRebalance, error, ticks, priceMoved>>

Step3 ==
    /\ pc = "step3"
    /\ LET done(r) == strategy' = r.s /\ calls' = r.calls
       IN  done(coverOutstandingBorrowedAmount(strategy))
    /\ pc' = "step4"
    /\ UNCHANGED <<valueBeforeRebalance, error, ticks, priceMoved>>

Step4 ==
    /\ pc = "step4"
    /\ LET done(r) == strategy' = r.s /\ calls' = r.calls
       IN  done(coverOutstandingCollateral(strategy))
    /\ pc' = "step5"
    /\ UNCHANGED <<valueBeforeRebalance, error, ticks, priceMoved>>

Step5 ==
    /\ pc = "step5"
    /\ strategy' = borrowUntilIdealSetup(strategy)
    /\ pc' = "step6"
    /\ calls' = <<>>
    /\ UNCHANGED <<valueBeforeRebalance, error, ticks, priceMoved>>

Step6 ==
    /\ pc = "step6"
    /\ LET done(r) ==
               /\ strategy' = r.s
               /\ calls' = r.calls
               /\ pc' = IF r.threw THEN "failed" ELSE "check"
               /\ error' = IF r.threw THEN "priceMismatch" ELSE error
       IN  done(addOutstandingLiquidityToAMM(strategy))
    /\ UNCHANGED <<valueBeforeRebalance, ticks, priceMoved>>

\* a variant of the end of rebalance() after which nextPrice does not write
\* lastRebalancePrice; RebalanceBookkeeping tells the two apart
RebalanceCheckKeepingLastPrice ==
    /\ pc = "check"
    /\ IF Gt(estimateTotalStrategyValue(strategy),
             Plus(valueBeforeRebalance, Epsilon))
       THEN /\ strategy' = [strategy EXCEPT !.totalRebalances = @ + 1]
            /\ pc' = "failed"
            /\ error' = "valueIncreased"
       ELSE /\ strategy' = [strategy EXCEPT !.totalRebalances = @ + 1]
            /\ pc' = "idle"
            /\ UNCHANGED error
    /\ UNCHANGED <<valueBeforeRebalance, ticks, calls, priceMoved>>

\* the end of rebalance(): the count, the sanity check and, back in
\* nextPrice, lastRebalancePrice
RebalanceCheck ==
    /\ pc = "check"
    /\ IF Gt(estimateTotalStrategyValue(strategy),
             Plus(valueBeforeRebalance, Epsilon))
       THEN /\ strategy' = [strategy EXCEPT !.totalRebalances = @ + 1]
            /\ pc' = "failed"
            /\ error' = "valueIncreased"
       ELSE /\ strategy' = [strategy EXCEPT
                               !.totalRebalances = @ + 1,
                               !.lastRebalancePrice = strategy.currentPrice]
            /\ pc' = "idle"
            /\ UNCHANGED error
    /\ UNCHANGED <<valueBeforeRebalance, ticks, calls, priceMoved>>

Next ==
    \/ \E p \in Prices : NextPrice(p)
    \/ Rebalance
    \/ Step1
    \/ Step2
    \/ Step3
    \/ Step4
    \/ Step5
    \/ Step6
    \/ RebalanceCheck

Spec == Init /\ [][Next]_vars

(***************************************************************************)
(* The driver of index.ts passes whatever parseFloat has read from the     *)
(* price file to nextPrice; this specification lets a tick also bring the  *)
(* prices 0 and -1.                                                        *)
(***************************************************************************)
NextAnyPrice ==
    \/ \E p \in Prices \cup NonPositivePrices : NextPrice(p)
    \/ Rebalance
    \/ Step1
    \/ Step2
    \/ Step3
    \/ Step4
    \/ Step5
    \/ Step6
    \/ RebalanceCheck

SpecAnyPrice == Init /\ [][NextAnyPrice]_vars

(***************************************************************************)
(* The cover functions on their own: a strategy with any unused balances,  *)
(* price and swap fee, and one call of a cover function with any amount.   *)
(***************************************************************************)
\* 0, 0.000000001, 1, 100.5
Balances == {ZERO, Dec(1, 3), ONE, Dec(100500, 1)}

\* 0, 0.333333333, 10, 250
Amounts == {ZERO, Dec(333333333, 3), Dec(10, 0), Dec(250, 0)}

\* 0.3, 2, 3
CoverPrices == {Dec(300, 1), Dec(2, 0), Dec(3, 0)}

\* 0, 0.01, 0.5
SwapFees == {ZERO, Dec(10, 1), Dec(500, 1)}

InitCover ==
    /\ strategy \in {[NewStrategy(DefaultConfig) EXCEPT
                          !.unusedUSDT = u, !.unusedTON = t,
                          !.currentPrice = p, !.swapFee = f] :
                      u \in Balances, t \in Balances,
                      p \in CoverPrices, f \in SwapFees}
    /\ pc = "cover"
    /\ valueBeforeRebalance = ZERO
    /\ error = "none"
    /\ ticks = 0
    /\ calls = <<>>
    /\ priceMoved = FALSE

CoverWithUSDT(amount) ==
    /\ pc = "cover"
    /\ LET done(c) == strategy' = c.s /\ calls' = <<c.call>>
       IN  done(coverAmountWithUSDT(strategy, amount))
    /\ pc' = "covered"
    /\ UNCHANGED <<valueBeforeRebalance, error, ticks, priceMoved>>

CoverWithTON(amount) ==
    /\ pc = "cover"
    /\ LET done(c) == strategy' = c.s /\ calls' = <<c.call>>
       IN  done(coverAmountWithTON(strategy, amount))
    /\ pc' = "covered"
    /\ UNCHANGED <<valueBeforeRebalance, error, ticks, priceMoved>>

NextCover ==
    \/ \E a \in Amounts : CoverWithUSDT(a)
    \/ \E a \in Amounts : CoverWithTON(a)

SpecCover == InitCover /\ [][NextCover]_vars

(***************************************************************************)
(* The constructor takes any ideal ratio in (0, 1) and any liquidation     *)
(* threshold above 1, and rebalance() brings collateral and debt to the    *)
(* ideal setup whatever the threshold is.  This specification starts from  *)
(* configurations with half of the capital for the AMM, whose ideal setup  *)
(* has debtValue = collateral > collateral / 1.25.                         *)
(***************************************************************************)
\* half of the capital for the AMM, started at the price 3.00
LeveragedConfig ==
    [DefaultConfig EXCEPT !.ratio = Dec(500, 1), !.initialPrice = Dec(3, 0)]

LeveragedConfigs ==
    {LeveragedConfig, [LeveragedConfig EXCEPT !.initialPrice = Dec(2, 0)]}

InitLeveraged ==
    /\ strategy \in {NewStrategy(c) : c \in LeveragedConfigs}
    /\ pc = "idle"
    /\ valueBeforeRebalance = ZERO
    /\ error = "none"
    /\ ticks = 0
    /\ calls = <<>>
    /\ priceMoved = FALSE

SpecLeveraged == InitLeveraged /\ [][Next]_vars

(***************************************************************************)
(* The properties.                                                         *)
(***************************************************************************)
\* C1: rebalancing never creates value.  In every run of ticks with positive
\* prices, when the six steps of a rebalance triggered by nextPrice are
\* over, estimateTotalStrategyValue() is at most the value measured before
\* the steps plus 0.00001, and the "total value increased" error is never
\* raised.
RebalanceNeverCreatesValue ==
    /\ error # "valueIncreased"
    /\ pc = "check" =>
           Lte(estimateTotalStrategyValue(strategy),
               Plus(valueBeforeRebalance, Epsilon))

\* the six steps of a rebalance are over and have cost value
RebalanceHasCostValue ==
    /\ pc = "check"
    /\ Gt(valueBeforeRebalance, ZERO)
    /\ Lt(estimateTotalStrategyValue(strategy), valueBeforeRebalance)

\* C2: insolvency is fatal and stops the tick.  nextPrice(p) raises the
\* insolvency error exactly when, with debt and collateral grown by
\* accrueInterest, debt * p > collateral / liquidationThreshold; the tick
\* then ends there: unusedUSDT gets no yield, the anchor reserves,
\* unusedTON, totalRebalances and lastRebalancePrice keep their values,
\* rebalance() is not run, and nothing runs after the failure.
InsolvencyEndsTheTick ==
    [][/\ pc # "failed"
       /\ (pc = "idle" /\ ticks' = ticks + 1) =>
           /\ strategy'.debt =
                  DecimalPlacesFloor(
                      Times(strategy.debt,
                            Plus(ONE, Div(Times(strategy.borrowingInterest,
                                                strategy.interestPeriod),
                                          Dec(MINUTES_IN_YEAR, 0)))), 9)
           /\ strategy'.collateral =
                  DecimalPlacesFloor(
                      Times(strategy.collateral,
                            Plus(ONE, Div(Times(strategy.supplyInterest,
                                                strategy.interestPeriod),
                                          Dec(MINUTES_IN_YEAR, 0)))), 6)
           /\ (error' = "insolvency") <=>
                  Gt(Times(strategy'.debt, strategy'.currentPrice),
                     Div(strategy'.collateral, strategy'.liquidationThreshold))
           /\ (error' = "insolvency") =>
                  /\ pc' = "failed"
                  /\ strategy'.unusedUSDT = strategy.unusedUSDT
                  /\ strategy'.unusedTON = strategy.unusedTON
                  /\ strategy'.initialReserveX = strategy.initialReserveX
                  /\ strategy'.initialReserveY = strategy.initialReserveY
                  /\ strategy'.totalRebalances = strategy.totalRebalances
                  /\ strategy'.lastRebalancePrice = strategy.lastRebalancePrice
           /\ (error' # "insolvency") => (error' = "none" /\ pc' # "failed")
      ]_vars

\* a tick has ended with the insolvency error, after a tick that had
\* rebalanced
TickEndedInsolvent ==
    /\ pc = "failed"
    /\ error = "insolvency"
    /\ ticks = 2
    /\ strategy.totalRebalances = 1
    /\ strategy.lastRebalancePrice # strategy.currentPrice

\* C3: a tick with a non-positive price is rejected before any state is
\* changed: the price, debt, collateral, anchor reserves, unusedTON,
\* unusedUSDT, totalRebalances and lastRebalancePrice are as before the
\* call.
NonPositivePriceRejected ==
    [][(pc = "idle" /\ ticks' = ticks + 1
        /\ strategy'.currentPrice \in NonPositivePrices) =>
           strategy' = strategy]_vars

\* C4: idempotence of the rebalance step.  In a state where
\* |deviationAmmReserveY| / currentAmmReserveY <= 0.1, a call of
\* rebalance() is a no-op: debt, collateral, the anchor reserves, unusedTON
\* and unusedUSDT are unchanged and totalRebalances is not incremented.
RebalanceWithinThresholdIsNoOp ==
    (pc = "idle" /\ Lte(deviationRatio(strategy), Dec(100, 1))) =>
        LET noOp(r) == r.error = "none" /\ r.s = strategy
        IN  noOp(rebalance(strategy))

\* C4, as the code has it.  rebalance() itself has no test of the threshold
\* and counts every call that gets to its end; it is nextPrice that leaves
\* a strategy within the threshold alone.  A tick after whose accrual and
\* yield |deviationAmmReserveY| / currentAmmReserveY <= 0.1 does not call
\* rebalance(): the anchor reserves, unusedTON, totalRebalances and
\* lastRebalancePrice are unchanged and unusedUSDT has grown by the yield
\* alone; a tick with a larger ratio calls rebalance().
TickWithinThresholdDoesNotRebalance ==
    [][/\ (pc = "idle" /\ ticks' = ticks + 1 /\ error' = "none") =>
           LET within(deviations, r) ==
                   /\ (pc' = "idle") <=>
                          Lte(Abs(Div(deviations.deviationAmmReserveY,
                                      r.reserveY)),
                              Dec(100, 1))
                   /\ (pc' # "idle") => (pc' = "rebalance")
                   /\ (pc' = "idle") =>
                          /\ strategy'.initialReserveX = strategy.initialReserveX
                          /\ strategy'.initialReserveY = strategy.initialReserveY
                          /\ strategy'.unusedTON = strategy.unusedTON
                          /\ strategy'.totalRebalances = strategy.totalRebalances
                          /\ strategy'.lastRebalancePrice =
                                 strategy.lastRebalancePrice
                          /\ strategy'.unusedUSDT =
                                 Plus(strategy.unusedUSDT,
                                      generateYield(strategy',
                                                    strategy.interestPeriod))
           IN  within(computeDeviationFromIdealSetup(strategy'),
                      getReservesForCurrentPrice(strategy'))
       /\ (pc = "check" /\ pc' = "idle") =>
              strategy'.totalRebalances = strategy.totalRebalances + 1
      ]_vars

\* a tick has moved the price, and the AMM reserveY below its ideal, without
\* a rebalance
TickWithinThresholdHasMovedPrice ==
    /\ pc = "idle"
    /\ ticks = 1
    /\ strategy.totalRebalances = 0
    /\ strategy.currentPrice # strategy.lastRebalancePrice
    /\ Lt(computeDeviationFromIdealSetup(strategy).deviationAmmReserveY, ZERO)

\* C5: convergence of the AMM side.  In the state right after a rebalance()
\* that has completed without error, |deviationAmmReserveY| /
\* currentAmmReserveY <= 0.1, both recomputed from that state at the
\* current price.
RebalanceConverges ==
    [][(pc = "check" /\ pc' = "idle") =>
           LET within(deviations, r) ==
                   Lte(Abs(Div(deviations.deviationAmmReserveY, r.reserveY)),
                       Dec(100, 1))
           IN  within(computeDeviationFromIdealSetup(strategy'),
                      getReservesForCurrentPrice(strategy'))]_vars

\* C5, as the code has it: the ratio is within 0.1 after a completed
\* rebalance() when the swap fee is at most 0.01, the fee of index.ts.  (With
\* a swap fee of 0.5 the cap of step 6 by (1 - swapFee) leaves the AMM more
\* than 10% below its ideal.)
RebalanceConvergesAtLowFee ==
    [][(pc = "check" /\ pc' = "idle" /\ Lte(strategy.swapFee, Dec(10, 1))) =>
           LET within(deviations, r) ==
                   Lte(Abs(Div(deviations.deviationAmmReserveY, r.reserveY)),
                       Dec(100, 1))
           IN  within(computeDeviationFromIdealSetup(strategy'),
                      getReservesForCurrentPrice(strategy'))]_vars

\* a rebalance() at a swap fee of at most 0.01 has completed, and its step 6
\* has added liquidity to the AMM
RebalancedAtLowFee ==
    /\ pc = "idle"
    /\ strategy.totalRebalances = 1
    /\ Lte(strategy.swapFee, Dec(10, 1))
    /\ Len(calls) = 2
    /\ Gt(calls[1].covered, ZERO)

\* C6: swap conservation of coverAmountWithUSDT.  For every amount >= 0,
\* non-negative unusedUSDT and unusedTON, price > 0 and swapFee in [0, 1),
\* the amount returned is at most the amount asked for, and the USDT that
\* came through the swap (the amount returned less the decrease of
\* unusedUSDT) is at most tonConsumed * price * (1 - swapFee), tonConsumed
\* being the decrease of unusedTON; the two are equal when the request is
\* filled (and, in the code, always).
SwapConservation ==
    (pc = "covered" /\ calls[1].fn = "coverAmountWithUSDT") =>
        LET conserved(c, swapped, tonConsumed) ==
                /\ Lte(c.covered, c.amount)
                /\ Gte(tonConsumed, ZERO)
                /\ Gte(swapped, ZERO)
                /\ Lte(swapped,
                       Times(Times(tonConsumed, c.price),
                             Minus(ONE, c.swapFee)))
                /\ Eq(c.covered, c.amount) =>
                       Eq(swapped,
                          Times(Times(tonConsumed, c.price),
                                Minus(ONE, c.swapFee)))
            call(c) ==
                conserved(c,
                          Minus(c.covered, Minus(c.usdtBefore, c.usdtAfter)),
                          Minus(c.tonBefore, c.tonAfter))
        IN  call(calls[1])

\* a call of coverAmountWithUSDT has taken all the unused USDT, swapped TON
\* for the rest at a swap fee, and returned what was asked for
CoveredWithSwap ==
    /\ pc = "covered"
    /\ calls[1].fn = "coverAmountWithUSDT"
    /\ Gt(calls[1].swapFee, ZERO)
    /\ Gt(calls[1].usdtBefore, ZERO)
    /\ IsZero(calls[1].usdtAfter)
    /\ Lt(calls[1].tonAfter, calls[1].tonBefore)
    /\ Eq(calls[1].covered, calls[1].amount)

Unit == Dec(1, DivLimbs)

\* the reserves derived from the anchor of s at the price p: reserveY is
\* p * reserveX, and reserveX * reserveY is k = initialReserveX *
\* initialReserveY less a rounding error: with X = sqrt(k / p), both cut to
\* 9 decimals, 0 <= k - p * X * X < (2 * reserveY + p + p * Unit) * Unit
ProductAt(s, p) ==
    LET product(r, k) ==
            /\ r.reserveY = Times(p, r.reserveX)
            /\ Lte(Times(r.reserveX, r.reserveY), k)
            /\ Lt(Minus(k, Times(r.reserveX, r.reserveY)),
                  Times(Plus(Plus(Times(Dec(2, 0), r.reserveY), p),
                             Times(p, Unit)),
                        Unit))
    IN  product(getReservesForCurrentPrice(setPrice(s, p)),
                Times(s.initialReserveX, s.initialReserveY))

\* C8: the constant-product invariant of the AMM.  Across a tick, and any
\* step, in which no rebalance step writes the anchor (only step 1, when
\* the AMM reserveY exceeds its ideal, and step 6, below -5%, do), the
\* anchor reserves are unchanged; and for every price p the reserves
\* derived from the anchor satisfy reserveY(p) = p * reserveX(p) and
\* reserveX(p) * reserveY(p) = k within the rounding of div and sqrt.  (The
\* derived reserves depend on the anchor and p alone: they are looked at
\* at every tick, which keeps the anchor, and after every step that may
\* write the anchor.)
ConstantProduct ==
    [][/\ (\/ pc \notin {"step1", "step6"}
           \/ /\ pc = "step1"
              /\ ~Gt(computeDeviationFromIdealSetup(strategy).deviationAmmReserveY,
                     ZERO)
           \/ /\ pc = "step6"
              /\ ~Lt(Div(computeDeviationFromIdealSetup(strategy).deviationAmmReserveY,
                         getReservesForCurrentPrice(strategy).reserveY),
                     Dec(-50, 1))) =>
              /\ strategy'.initialReserveX = strategy.initialReserveX
              /\ strategy'.initialReserveY = strategy.initialReserveY
       /\ (pc = "idle") => \A p \in Prices : ProductAt(strategy, p)
       /\ (pc \in {"step1", "step6"}) =>
              \A p \in Prices : ProductAt(strategy', p)
      ]_vars

\* a tick has moved the price and the derived reserves, not the anchor
ReservesDerivedAtNewPrice ==
    /\ pc = "idle"
    /\ ticks = 1
    /\ strategy.currentPrice = Dec(2500, 1)
    /\ strategy.initialReserveX = Dec(165000, 0)
    /\ strategy.initialReserveY = Dec(330000, 0)
    /\ Gt(getReservesForCurrentPrice(strategy).reserveY, strategy.initialReserveY)
    /\ Lt(Times(getReservesForCurrentPrice(strategy).reserveX,
                getReservesForCurrentPrice(strategy).reserveY),
          Times(strategy.initialReserveX, strategy.initialReserveY))

\* C9: the initial allocation.  A Strategy constructed with capital C,
\* ratio r and initial price p0 has collateral C - C * r, anchor reserveY
\* C * r, debt and anchor reserveX C * r / p0 (a BN division: 9 decimals),
\* no unused funds, totalRebalances = 0 and lastRebalancePrice = p0; with
\* C = 1,000,000, r = 0.33, p0 = 2.00 these are 670,000, 330,000, 165,000
\* and 165,000 (and with C = 1000, r = 0.4, p0 = 3: 600, 400 and
\* 133.333333333).
InitialAllocation ==
    (ticks = 0 /\ pc = "idle") =>
        /\ \E c \in Configs :
               /\ strategy.idealRatio = c.ratio
               /\ strategy.collateral =
                      Minus(c.usdtToInvest, Times(c.usdtToInvest, c.ratio))
               /\ strategy.initialReserveY = Times(c.usdtToInvest, c.ratio)
               /\ strategy.debt =
                      Div(Times(c.usdtToInvest, c.ratio), c.initialPrice)
               /\ strategy.initialReserveX = strategy.debt
               /\ strategy.lastRebalancePrice = c.initialPrice
               /\ strategy.currentPrice = c.initialPrice
        /\ IsZero(strategy.unusedTON)
        /\ IsZero(strategy.unusedUSDT)
        /\ strategy.totalRebalances = 0
        /\ (strategy.idealRatio = Dec(330, 1)) =>
               /\ strategy.collateral = Dec(670000, 0)
               /\ strategy.initialReserveY = Dec(330000, 0)
               /\ strategy.debt = Dec(165000, 0)
               /\ strategy.initialReserveX = Dec(165000, 0)
               /\ strategy.lastRebalancePrice = Dec(2, 0)
        /\ (strategy.idealRatio = Dec(400, 1)) =>
               /\ strategy.collateral = Dec(600, 0)
               /\ strategy.initialReserveY = Dec(400, 0)
               /\ strategy.debt = Plus(Dec(133, 0), Dec(333333333, 3))
               /\ strategy.initialReserveX = strategy.debt
               /\ strategy.lastRebalancePrice = Dec(3, 0)

\* the strategy of index.ts, just constructed at the price 2.00
ConstructedAsInIndex ==
    /\ ticks = 0
    /\ pc = "idle"
    /\ strategy = NewStrategy(DefaultConfig)
    /\ strategy.debt = Dec(165000, 0)

\* the strategy s has the configuration of index.ts
IsDefault(s) ==
    /\ s.idealRatio = DefaultConfig.ratio
    /\ s.swapFee = DefaultConfig.swapFee
    /\ s.interestPeriod = DefaultConfig.interestPeriod
    /\ s.ammSupplyInterest = DefaultConfig.ammSupplyInterest

\* the first tick of s is under way, or over, at the price 2.50
JumpedTo250(s, t) == t = 1 /\ IsDefault(s) /\ s.currentPrice = Dec(2500, 1)

\* C10: the price jump.  From the strategy just constructed at the price
\* 2.00 (capital 1,000,000, ratio 0.33), the single tick nextPrice(2.50)
\* triggers the rebalance, once: it completes without error, takes
\* totalRebalances from 0 to 1 and lastRebalancePrice to 2.50; and the
\* total value after the tick is at most the total value at the new price
\* before the rebalance, 995404.267993888, which is the value of the
\* position of before the jump with the interest and the yield of the tick.
PriceJump ==
    [][/\ (pc = "idle" /\ JumpedTo250(strategy', ticks')) =>
              /\ pc' = "rebalance"
              /\ error' = "none"
              /\ strategy'.totalRebalances = 0
              /\ strategy'.lastRebalancePrice = Dec(2, 0)
       /\ JumpedTo250(strategy', ticks') => pc' # "failed"
       /\ (pc = "rebalance" /\ JumpedTo250(strategy, ticks)) =>
              /\ valueBeforeRebalance' =
                     Plus(Dec(995404, 0), Dec(267993888, 3))
              /\ Lt(valueBeforeRebalance',
                    estimateTotalStrategyValue(NewStrategy(DefaultConfig)))
       /\ (pc = "check" /\ JumpedTo250(strategy, ticks)) =>
              /\ pc' = "idle"
              /\ strategy.totalRebalances = 0
              /\ strategy'.totalRebalances = 1
              /\ strategy'.lastRebalancePrice = Dec(2500, 1)
              /\ Lte(estimateTotalStrategyValue(strategy'),
                     valueBeforeRebalance)
              /\ Gt(estimateTotalStrategyValue(strategy'), Dec(994968, 0))
              /\ Lt(estimateTotalStrategyValue(strategy'), Dec(994969, 0))
      ]_vars

\* the tick nextPrice(2.50) is over and has rebalanced once
JumpRebalancedOnce ==
    /\ pc = "idle"
    /\ JumpedTo250(strategy, ticks)
    /\ strategy.totalRebalances = 1
    /\ strategy.lastRebalancePrice = Dec(2500, 1)
    /\ Lt(estimateTotalStrategyValue(strategy), valueBeforeRebalance)

\* C11: the bookkeeping of the rebalances.  A tick enters rebalance()
\* exactly when, after the interest and the yield of the tick,
\* |deviationAmmReserveY| / currentAmmReserveY > 0.1; when the rebalance
\* completes, totalRebalances grows by exactly 1 and lastRebalancePrice
\* becomes the price of the tick; at every other step (a tick within the
\* threshold, the six steps, a step that ends in an error) both keep their
\* values.  So totalRebalances starts at 0, counts the completed rebalances
\* and never exceeds the number of ticks.
RebalanceBookkeeping ==
    [][/\ (ticks = 0) => (strategy.totalRebalances = 0)
       /\ strategy.totalRebalances <= ticks
       /\ (pc = "idle" /\ error' = "none") =>
              LET beyond(deviations, r) ==
                      Gt(Abs(Div(deviations.deviationAmmReserveY, r.reserveY)),
                         Dec(100, 1))
              IN  (pc' = "rebalance") <=>
                      beyond(computeDeviationFromIdealSetup(strategy'),
                             getReservesForCurrentPrice(strategy'))
       /\ (pc = "idle" /\ error' # "none") => pc' = "failed"
       /\ (pc # "idle") => strategy'.currentPrice = strategy.currentPrice
       /\ (pc = "check" /\ error' = "none") =>
              /\ pc' = "idle"
              /\ strategy'.totalRebalances = strategy.totalRebalances + 1
              /\ strategy'.lastRebalancePrice = strategy.currentPrice
       /\ (pc # "check" \/ error' # "none") =>
              /\ strategy'.totalRebalances = strategy.totalRebalances
              /\ strategy'.lastRebalancePrice = strategy.lastRebalancePrice
      ]_vars

\* two ticks have each completed a rebalance, at two different prices
TwoRebalancesCounted ==
    /\ pc = "idle"
    /\ error = "none"
    /\ ticks = 2
    /\ strategy.totalRebalances = 2
    /\ strategy.lastRebalancePrice = strategy.currentPrice
    /\ priceMoved

\* C12: partial coverage is never an error.  Whenever a cover function
\* called by step 3, 4 or 6 of a rebalance returns less than the amount it
\* was asked for, the step raises no error, and the rebalance goes on to
\* complete without one.
PartialCoverageIsNoError ==
    [][/\ (/\ pc \in {"step3", "step4", "step6"}
           /\ \E i \in DOMAIN calls' :
                  Lt(calls'[i].covered, calls'[i].amount)) =>
              (error' = "none" /\ pc' # "failed")
       /\ (pc = "check") => (error' = "none" /\ pc' = "idle")
      ]_vars

\* C13: the unused balances are never negative.  In every state reachable
\* from the construction by ticks with positive prices, the states between
\* the six steps of a rebalance included, unusedTON >= 0 and
\* unusedUSDT >= 0.
UnusedBalancesNeverNegative ==
    /\ Gte(strategy.unusedTON, ZERO)
    /\ Gte(strategy.unusedUSDT, ZERO)

\* step 3 has asked coverAmountWithTON for more than the unused balances
\* held: both were positive before the call and are exhausted after it
CoverExhaustedUnusedBalances ==
    /\ pc = "step4"
    /\ Len(calls) = 1
    /\ Lt(calls[1].covered, calls[1].amount)
    /\ Gt(calls[1].tonBefore, ZERO)
    /\ Gt(calls[1].usdtBefore, ZERO)
    /\ strategy.unusedTON = ZERO
    /\ strategy.unusedUSDT = ZERO

\* C14: the anchor is written at the current price.  Of the steps of a
\* rebalance only step 1 and step 6 write the anchor; after a step 1 or a
\* step 6 that has written it, |initialReserveY / initialReserveX -
\* currentPrice| < 0.001.  In step 6, when the amounts the cover functions
\* have returned give a price availableY / availableX that is 0.001 or more
\* away from the current price, the step raises the error and leaves the
\* anchor as it was; otherwise it raises none and the anchor grows by the
\* amounts returned.
AnchorWrittenAtCurrentPrice ==
    [][LET written ==
               \/ strategy'.initialReserveX # strategy.initialReserveX
               \/ strategy'.initialReserveY # strategy.initialReserveY
           atCurrentPrice ==
               Lt(Abs(Minus(Div(strategy'.initialReserveY,
                                strategy'.initialReserveX),
                            strategy.currentPrice)),
                  Dec(1, 1))
           mismatch(availableX, availableY) ==
               ~Lt(Abs(Minus(Div(availableY, availableX),
                             strategy.currentPrice)),
                   Dec(1, 1))
       IN  /\ written => (pc \in {"step1", "step6"} /\ atCurrentPrice)
           /\ (pc = "step6" /\ calls' = <<>>) => (~written /\ pc' = "check")
           /\ (pc = "step6" /\ calls' # <<>>) =>
                  /\ Len(calls') = 2
                  /\ calls'[1].fn = "coverAmountWithTON"
                  /\ calls'[2].fn = "coverAmountWithUSDT"
                  /\ IF mismatch(calls'[1].covered, calls'[2].covered)
                     THEN /\ error' = "priceMismatch"
                          /\ pc' = "failed"
                          /\ ~written
                     ELSE /\ error' = "none"
                          /\ pc' = "check"
                          /\ Eq(Minus(strategy'.initialReserveX,
                                      calls'[1].covered),
                                getReservesForCurrentPrice(strategy).reserveX)
                          /\ Eq(Minus(strategy'.initialReserveY,
                                      calls'[2].covered),
                                getReservesForCurrentPrice(strategy).reserveY)
      ]_vars

\* step 6 has added liquidity: the anchor it has written is in the ratio
\* of the current price, which is not the price of the anchor before
AnchorGrownAtCurrentPrice ==
    /\ pc = "check"
    /\ Len(calls) = 2
    /\ Gt(calls[1].covered, ZERO)
    /\ Gt(calls[2].covered, ZERO)
    /\ strategy.lastRebalancePrice # strategy.currentPrice
    /\ Lt(Abs(Minus(Div(strategy.initialReserveY, strategy.initialReserveX),
                    strategy.currentPrice)),
          Dec(1, 1))

\* C15: the cap of step 6.  When addOutstandingLiquidityToAMM acts, the
\* amounts X and Y it asks the cover functions for are in the proportion of
\* the amounts needed to reach the ideal reserves, and their value
\* X * price + Y is min(value needed, unusedFundsValue * (1 - swapFee)), up
\* to the rounding of the quotient of the two (9 decimals, downwards); so X
\* and Y are at most the amounts needed and their value is at most
\* unusedFundsValue * (1 - swapFee).
StepSixRequestIsCapped ==
    [][(pc = "step6" /\ calls' # <<>>) =>
           LET capped(o, X, Y, value) ==
                   /\ Times(X, o.neededY) = Times(Y, o.neededX)
                   /\ Lte(X, o.neededX)
                   /\ Lte(Y, o.neededY)
                   /\ Lte(value, o.totalUnused)
                   /\ Lte(value, Min(o.totalOutstanding, o.totalUnused))
                   /\ Gte(value,
                          Minus(Min(o.totalOutstanding, o.totalUnused),
                                Times(o.totalOutstanding, Dec(1, 3))))
               asked(o, X, Y) ==
                   capped(o, X, Y, Plus(Times(X, strategy.currentPrice), Y))
           IN  asked(outstandingLiquidity(
                         strategy,
                         computeDeviationFromIdealSetup(strategy),
                         getReservesForCurrentPrice(strategy)),
                     calls'[1].amount, calls'[2].amount)
      ]_vars

\* the fields of the strategy s other than those named in the set fields
\* are those of the strategy t
SameExcept(s, t, fields) ==
    \A f \in (DOMAIN s) \ fields : s[f] = t[f]

\* |a - b| is at most 0.000001
WithinRounding(a, b) == Lte(Abs(Minus(a, b)), Dec(1, 2))

\* C16: steps 1, 2 and 5 of a rebalance are pure transfers.  Step 1, when
\* it withdraws, takes both reserves derived at the current price down by
\* the same factor, writes them as the anchor and credits unusedTON and
\* unusedUSDT with exactly what it has removed; step 2 takes the collateral
\* down and unusedUSDT up by the same amount; step 5 takes the debt and
\* unusedTON up by the same amount.  None of them
\* changes anything else, and each leaves estimateTotalStrategyValue as it
\* was, up to the rounding of the reserves.  What a rebalance loses is the
\* fee of the swaps of steps 3, 4 and 6: with a swap fee of 0 these steps
\* leave the value as it was too.
StepsOneTwoFiveAreTransfers ==
    [][/\ (pc = "step1" /\ strategy' # strategy) =>
              LET transfer(r, after) ==
                      /\ Times(after.reserveX, r.reserveY) =
                             Times(after.reserveY, r.reserveX)
                      /\ Lte(after.reserveX, r.reserveX)
                      /\ WithinRounding(after.reserveX, strategy'.initialReserveX)
                      /\ WithinRounding(after.reserveY, strategy'.initialReserveY)
                      /\ Minus(strategy'.unusedTON, strategy.unusedTON) =
                             Minus(r.reserveX, strategy'.initialReserveX)
                      /\ Minus(strategy'.unusedUSDT, strategy.unusedUSDT) =
                             Minus(r.reserveY, strategy'.initialReserveY)
              IN  /\ transfer(getReservesForCurrentPrice(strategy),
                              getReservesForCurrentPrice(strategy'))
                  /\ SameExcept(strategy', strategy,
                                {"initialReserveX", "initialReserveY",
                                 "unusedTON", "unusedUSDT"})
       /\ (pc = "step2") =>
              /\ Lte(strategy'.collateral, strategy.collateral)
              /\ Minus(strategy.collateral, strategy'.collateral) =
                     Minus(strategy'.unusedUSDT, strategy.unusedUSDT)
              /\ SameExcept(strategy', strategy, {"collateral", "unusedUSDT"})
       /\ (pc = "step5") =>
              /\ Gte(strategy'.debt, strategy.debt)
              /\ Minus(strategy'.debt, strategy.debt) =
                     Minus(strategy'.unusedTON, strategy.unusedTON)
              /\ SameExcept(strategy', strategy, {"debt", "unusedTON"})
       /\ (pc \in {"step1", "step2", "step5"}) =>
              /\ WithinRounding(estimateTotalStrategyValue(strategy'),
                                estimateTotalStrategyValue(strategy))
              /\ error' = error
              /\ ticks' = ticks
              /\ valueBeforeRebalance' = valueBeforeRebalance
       /\ (pc \in {"step3", "step4", "step6"} /\ strategy.swapFee = ZERO) =>
              WithinRounding(estimateTotalStrategyValue(strategy'),
                             estimateTotalStrategyValue(strategy))
      ]_vars

\* steps 2 and 5 have acted in a rebalance whose step 1 had nothing to
\* withdraw: the unused balances hold the collateral withdrawn and the
\* amount borrowed, and collateral and debt are at their ideal
WithdrawnAndBorrowed ==
    /\ pc = "step6"
    /\ Gt(strategy.unusedTON, Dec(1000, 0))
    /\ Gt(strategy.unusedUSDT, Dec(1000, 0))
    /\ computeDeviationFromIdealSetup(strategy).deviationAmountToBorrow = ZERO
    /\ computeDeviationFromIdealSetup(strategy).deviationLendingCollateral = ZERO

\* C17: solvency after every completed tick.  In the state a call of
\* nextPrice leaves when it returns without an error, the ticks whose
\* rebalance has withdrawn collateral or borrowed included, the lending
\* position is not liquidatable:
\* debt * currentPrice <= collateral / liquidationThreshold.
SolventAfterCompletedTick ==
    (pc = "idle" /\ ticks > 0 /\ error = "none") =>
        Lte(Times(strategy.debt, strategy.currentPrice),
            Div(strategy.collateral, strategy.liquidationThreshold))

====
